---- MODULE Spec2Model ----
(***************************************************************************)
(* Model of the aexpy-index job orchestration: the job ledger (ProcessDB), *)
(* the checkpointed wrappers Processor.version / Processor.pair, the       *)
(* driver loops Processor.package / Processor.packages and the entry       *)
(* point __main__.                                                         *)
(*                                                                         *)
(* One operating-system process runs at a time.  The ledger file and the  *)
(* installed tool version survive a process; everything else is process   *)
(* memory and is lost when the process ends.  A process is either the     *)
(* entry point (__main__) or a client of the library that loads the       *)
(* ledger, sets the quota, builds a Processor, calls packages, then       *)
(* version directly, and saves.                                           *)
(***************************************************************************)
EXTENDS Integers, Sequences, FiniteSets, TLC

(* ---------------------------------------------------------------------- *)
(* Bounds                                                                 *)
(* ---------------------------------------------------------------------- *)
MaxBodies == 3        \* job bodies entered in one behaviour, all processes
MaxLimit == 2         \* largest quota a client configures
MaxClientCalls == 1   \* direct version() calls of a client per process
NumReleasesA == 2     \* releases the metadata source lists for project "a"
NumReleasesC == 3     \* releases the metadata source lists for project "c"
MaxCorrupt == 1       \* artifacts for which the tool prints what does not parse
MaxFiles == 4         \* artifact files in a distribution tree handed to index
MaxPairLen == 3       \* longest release list handed to release.pair alone
MaxRejected == 1      \* pairs a predicate handed to release.pair rejects

(* ---------------------------------------------------------------------- *)
(* Program constants                                                      *)
(* ---------------------------------------------------------------------- *)
SUCCESS == 1
FAILURE == 2
JOB_EXTRACT == "extract"
JOB_DIFF == "diff"

NoState == 0          \* marks "no entry" (dict.get returns None)
NoLimit == -1         \* processLimit = None
Unset == 0            \* cached_property workerVersion not yet computed

Versions == {1, 2}    \* tool builds the adapter can report
ExitCodes == {0, 1}   \* exit status of one external tool invocation
Limits == {NoLimit} \cup (0..MaxLimit)

ConfPath == "indexer.json"   \* the path handed to ProcessDB.load
OldPath == "process.json"    \* a path stored in a ledger file that was moved

Projects == <<"a", "b">>     \* conf.packages
ProjectsThree == <<"c">>     \* conf.packages of a deployment that follows "c"
ProjectNames == {"a", "b", "c"}

(* ---------------------------------------------------------------------- *)
(* Releases, pairs and job keys                                           *)
(* ---------------------------------------------------------------------- *)
\* project "b" has no release yet
NumReleases(project) ==
    CASE project = "a" -> NumReleasesA
      [] project = "c" -> NumReleasesC
      [] OTHER -> 0

\* Processor.getReleases: the (sorted) releases of a project
getReleases(project) ==
    [i \in 1..NumReleases(project) |-> [project |-> project, version |-> i]]

ReleasesOf(project) ==
    {getReleases(project)[i] : i \in 1..NumReleases(project)}

AllReleases == UNION {ReleasesOf(project) : project \in ProjectNames}

AllPairs ==
    {[old |-> o, new |-> n] : <<o, n>> \in
        {<<x, y>> \in AllReleases \X AllReleases :
            x.project = y.project /\ x.version < y.version}}

\* str(Release) = "project@version", str(ReleasePair) = "project@old&new"
StrRelease(r) == <<r.project, r.version>>
StrPair(p) == <<p.old.project, p.old.version, p.new.version>>

\* the ledger key f"{type}:{id}"
JobKey(type, id) == <<type, id>>

Jobs == {JobKey(JOB_EXTRACT, StrRelease(r)) : r \in AllReleases}
          \cup {JobKey(JOB_DIFF, StrPair(p)) : p \in AllPairs}

NoJob == JobKey("none", <<>>)

\* release.pair: walk the list, pairing each item with lastVersion; a
\* rejected pair takes the `continue` and leaves lastVersion unchanged.
\* filter is the set of accepted pairs, or NoFilter.
NoFilter == {[old |-> [project |-> "", version |-> 0],
              new |-> [project |-> "", version |-> 0]]}
NoRelease == [project |-> "", version |-> 0]

RECURSIVE pairLoop(_, _, _, _, _)
pairLoop(rels, i, lastVersion, ret, filter) ==
    IF i > Len(rels) THEN ret
    ELSE LET item == rels[i] IN
         IF lastVersion = NoRelease
         THEN pairLoop(rels, i + 1, item, ret, filter)
         ELSE LET rp == [old |-> lastVersion, new |-> item] IN
              IF filter # NoFilter /\ rp \notin filter
              THEN pairLoop(rels, i + 1, lastVersion, ret, filter)
              ELSE pairLoop(rels, i + 1, item, Append(ret, rp), filter)

\* release.pair started one element late
pair_fromSecond(rels, filter) == pairLoop(rels, 2, NoRelease, <<>>, filter)

pair(rels, filter) == pairLoop(rels, 1, NoRelease, <<>>, filter)

\* the arguments release.pair is called with on its own: any list of
\* releases of one project, and no predicate or a predicate that rejects
\* a few pairs (the predicate is the set of pairs it accepts)
PairReleases == {[project |-> "a", version |-> v] : v \in 1..MaxPairLen}
PairInputs == UNION {[1..n -> PairReleases] : n \in 0..MaxPairLen}
PairsOver == {[old |-> o, new |-> n] : o \in PairReleases, n \in PairReleases}
Filters ==
    {NoFilter} \cup
    {PairsOver \ R : R \in {Q \in SUBSET PairsOver :
                                Cardinality(Q) <= MaxRejected}}

(* ---------------------------------------------------------------------- *)
(* Ledger values                                                          *)
(* ---------------------------------------------------------------------- *)
NoEntry == [version |-> 0, state |-> NoState]

\* ProcessResult(version, state, time)
ProcessResult(version, state) == [version |-> version, state |-> state]

EmptyData == [j \in Jobs |-> NoEntry]

\* ProcessDB(path=..., data={}, processLimit=None, processCount=0)
ProcessDB(path) ==
    [path |-> path, data |-> EmptyData, processLimit |-> NoLimit,
     processCount |-> 0]

NoDb == ProcessDB("")

FileMissing == [kind |-> "missing", content |-> NoDb]
FileCorrupt == [kind |-> "corrupt", content |-> NoDb]
FileValid(content) == [kind |-> "valid", content |-> content]

\* a ledger written by an earlier deployment under another file name, with
\* the counters it had when it was written
LegacyFile ==
    FileValid([path |-> OldPath, data |-> EmptyData,
               processLimit |-> 1, processCount |-> 1])


(* ---------------------------------------------------------------------- *)
(* The distribution tree                                                  *)
(* ---------------------------------------------------------------------- *)
\* an artifact file is named by its kind and by str(release) or str(pair);
\* dist.preprocess / extract / diff / report give its path
ReleaseKinds == {"preprocess", "extract"}
PairKinds == {"diff", "report"}
Artifacts ==
    {<<k, StrRelease(r)>> : k \in ReleaseKinds, r \in AllReleases}
      \cup {<<k, StrPair(p)>> : k \in PairKinds, p \in AllPairs}

\* the bytes a tool run printed parse as the product or do not
Outputs == {"valid", "corrupt"}

EmptyTree == [x \in Artifacts |-> "absent"]

\* the artifact files of one project
ArtifactsOf(project) == {x \in Artifacts : x[2][1] = project}

\* the distribution trees with at most MaxFiles files, all of project "a"
SmallTrees ==
    {[x \in Artifacts |-> IF x \in DOMAIN f THEN f[x] ELSE "absent"] :
        f \in UNION {[F -> Outputs] :
                       F \in {G \in SUBSET ArtifactsOf("a") :
                                 Cardinality(G) <= MaxFiles}}}

\* index.json of a project
NoDoc == [written |-> FALSE, releases |-> <<>>, distributions |-> <<>>,
          apis |-> <<>>, pairs |-> <<>>, changes |-> <<>>, reports |-> <<>>]
NoDocs == [project \in ProjectNames |-> NoDoc]

\* an index.json left by an earlier indexing of project "a"
OldDoc ==
    [written |-> TRUE, releases |-> getReleases("a"), distributions |-> <<>>,
     apis |-> getReleases("a"), pairs |-> pair(getReleases("a"), NoFilter),
     changes |-> <<>>, reports |-> <<>>]

(* ---------------------------------------------------------------------- *)
(* State                                                                  *)
(* ---------------------------------------------------------------------- *)
VARIABLES
    disk,           \* the ledger file at ConfPath
    toolVersion,    \* the version the installed tool reports
    bodies,         \* job bodies entered so far, by all processes
    confLimit,      \* the quota this deployment configures
    projects,       \* conf.packages of this deployment
    manifest,       \* the file packages.json under the distribution root
    tree,           \* the artifact files under the distribution root
    indexDoc,       \* the file index.json of each project
    pc,             \* position of the running process ("idle": none)
    db,             \* the ProcessDB object of the running process
    workerVersion,  \* Processor.workerVersion (cached_property)
    clientCalls,    \* direct version() calls made by the client
    projIdx,        \* packages: index of the project being handled
    doneProjects,   \* packages: doneProjects
    releases,       \* package: releases
    relIdx,         \* package: position in the release loop
    doneReleases,   \* package: doneReleases
    pairs,          \* package: pairs
    pairIdx,        \* package: position in the pair loop
    donePairs,      \* package: donePairs
    elapsed,        \* packages: a timeout is set and timer() is beyond it
    seen,           \* what the loops of packages and package did so far
    toIndex,        \* indexPackages: the projects it iterates over
    unparsable,     \* the artifacts for which the tool prints what does not parse
    cache,         \* the artifact files under the cache root
    wheels,         \* the projects whose wheels directory exists in the cache
    curJob,         \* key of the job whose body is executing
    ctx,            \* caller of the executing version()/pair()
    raised,         \* an exception is propagating out of the job body
    started,        \* job bodies entered by this process
    succeeded,      \* jobs whose body completed normally in this process
    lastCall,       \* observation of the latest version()/pair() call
    lastDone,       \* the latest ProcessDB.done of this process
    exitKind,       \* how the latest process ended
    completed,      \* (job, tool version) whose body ever completed normally
    mainLoads,      \* ProcessDB.load calls made by entry-point processes
    mainSaves,      \* ProcessDB.save calls made by entry-point processes
    pairArgs,       \* release.pair called on its own: its arguments
    pairRet,        \* release.pair called on its own: what it returned
    sortArgs,       \* release.sortedVersions called on its own: its argument
    sortRet         \* release.sortedVersions called on its own: what it returned

dist == <<manifest, tree, indexDoc>>
persistent == <<disk, toolVersion, bodies, confLimit, projects, dist>>
process == <<pc, db, workerVersion, clientCalls>>
loops == <<projIdx, doneProjects, releases, relIdx, doneReleases, pairs,
           pairIdx, donePairs, elapsed, seen>>
job == <<curJob, ctx, raised>>
history == <<started, succeeded, lastCall, lastDone, exitKind,
             completed>>
mainVars == <<mainLoads, mainSaves>>

indexing == <<toIndex>>
tool == <<unparsable>>
cacheDist == <<cache, wheels>>
pure == <<pairArgs, pairRet, sortArgs, sortRet>>

program ==
    <<persistent, tool, cacheDist, process, loops, indexing, job, history,
      mainVars>>

vars == <<program, pure>>

NoCall == [job |-> NoJob, entry |-> NoEntry, adapter |-> 0, ran |-> FALSE,
           calls |-> 0, codes |-> <<>>, prior |-> FALSE]
NoDone == [job |-> NoJob, entry |-> NoEntry]
NoManifest == <<"no file">>
NoSeen == [raisedReleases |-> {}, raisedPairs |-> {}, begun |-> <<>>,
           unfetched |-> {}, indexed |-> <<>>, failed |-> {},
           unloadable |-> {}, timedOut |-> FALSE]
NoArgs == [releases |-> <<>>, filter |-> NoFilter]
NotCalled == [called |-> FALSE, value |-> <<>>]

\* the program before its first process
ProgramInit ==
    /\ toolVersion = 1
    /\ bodies = 0
    /\ manifest = NoManifest
    /\ pc = "idle"
    /\ db = NoDb
    /\ workerVersion = Unset
    /\ clientCalls = 0
    /\ projIdx = 0
    /\ doneProjects = <<>>
    /\ releases = <<>>
    /\ relIdx = 0
    /\ doneReleases = <<>>
    /\ pairs = <<>>
    /\ pairIdx = 0
    /\ donePairs = <<>>
    /\ elapsed = FALSE
    /\ seen = NoSeen
    /\ toIndex = <<>>
    /\ cache = {}
    /\ wheels = {}
    /\ curJob = NoJob
    /\ ctx = "none"
    /\ raised = FALSE
    /\ started = 0
    /\ succeeded = {}
    /\ lastCall = NoCall
    /\ lastDone = NoDone
    /\ exitKind = "none"
    /\ completed = {}
    /\ mainLoads = 0
    /\ mainSaves = 0

Init ==
    /\ ProgramInit
    /\ disk \in {FileMissing, FileCorrupt, LegacyFile}
    /\ confLimit \in Limits
    /\ projects = Projects
    /\ tree = EmptyTree
    /\ indexDoc = NoDocs
    /\ unparsable = {}
    /\ pairArgs = NoArgs
    /\ pairRet = NotCalled
    /\ sortArgs = <<>>
    /\ sortRet = NotCalled

\* the memory of a process that has ended
MemoryGone ==
    /\ db' = NoDb
    /\ workerVersion' = Unset
    /\ clientCalls' = 0
    /\ projIdx' = 0
    /\ doneProjects' = <<>>
    /\ releases' = <<>>
    /\ relIdx' = 0
    /\ doneReleases' = <<>>
    /\ pairs' = <<>>
    /\ pairIdx' = 0
    /\ donePairs' = <<>>
    /\ elapsed' = FALSE
    /\ seen' = NoSeen
    /\ toIndex' = <<>>
    /\ curJob' = NoJob
    /\ ctx' = "none"
    /\ raised' = FALSE

\* what was observed of a process that was killed
ObservationsGone ==
    /\ started' = 0
    /\ succeeded' = {}
    /\ lastCall' = NoCall
    /\ lastDone' = NoDone

(* ---------------------------------------------------------------------- *)
(* ProcessDB                                                              *)
(* ---------------------------------------------------------------------- *)
\* ProcessDB.__getitem__: self.data.get(job)
GetItem(d, key) == d.data[key]

\* ProcessDB.done that records successes only
done_successOnly(d, key, version, state) ==
    IF state = SUCCESS
    THEN [d EXCEPT !.data[key] = ProcessResult(version, state)]
    ELSE d

\* ProcessDB.done: self.data[job] = ProcessResult(version, state, now)
done(d, key, version, state) ==
    [d EXCEPT !.data[key] = ProcessResult(version, state)]

\* ProcessDB.save: the whole model is dumped, processLimit and
\* processCount included
save(d) == FileValid(d)

\* ProcessDB.load without the fallback: the error of read_text or of
\* model_validate_json reaches the caller
load_noCatch(file, path) ==
    IF file.kind = "valid"
    THEN [raised |-> FALSE,
          db |-> [file.content EXCEPT !.path = path, !.processCount = 0]]
    ELSE [raised |-> TRUE, db |-> NoDb]

\* ProcessDB.load that keeps the serialized counter
load_keepCount(file, path) ==
    IF file.kind = "valid"
    THEN [raised |-> FALSE, db |-> [file.content EXCEPT !.path = path]]
    ELSE [raised |-> FALSE, db |-> ProcessDB(path)]

\* ProcessDB.load
load(file, path) ==
    IF file.kind = "valid"
    THEN [raised |-> FALSE,
          db |-> [file.content EXCEPT !.path = path, !.processCount = 0]]
    ELSE [raised |-> FALSE, db |-> ProcessDB(path)]

\* the quota test in the finally block of ProcessDB.do, off by one
quotaReached_gt(d) ==
    d.processLimit # NoLimit /\ d.processCount > d.processLimit

\* the quota test in the finally block of ProcessDB.do
quotaReached(d) ==
    d.processLimit # NoLimit /\ d.processCount >= d.processLimit

(* ---------------------------------------------------------------------- *)
(* Processor: the done-check                                              *)
(* ---------------------------------------------------------------------- *)
\* cached_property: the first access asks the adapter
WorkerVersionOf(cached, adapter) == IF cached = Unset THEN adapter ELSE cached

\* a done-check that never finds the job done
hasDone_never(d, wv, type, id) == FALSE

\* a done-check with the version comparison inverted
hasDone_inverted(d, wv, type, id) ==
    LET item == GetItem(d, JobKey(type, id)) IN
    item # NoEntry /\ item.version # wv

\* a done-check that ignores the tool version
hasDone_anyVersion(d, wv, type, id) ==
    GetItem(d, JobKey(type, id)) # NoEntry

\* Processor.hasDone: item and item.version == self.workerVersion
hasDone(d, wv, type, id) ==
    LET item == GetItem(d, JobKey(type, id)) IN
    item # NoEntry /\ item.version = wv

\* an ensure that lets every exit status pass
ensure_always(code) == TRUE

\* AexPyResult.ensure: only the exit status is inspected
ensure(code) == code = 0

\* the names release.py defines, and the import at the head of
\* Processor.index: from .release import pair, sortedReleases
ReleaseExports ==
    {"getIndex", "getReleases", "compareVersion", "sortedVersions", "single",
     "pair"}
ImportSucceeds == {"pair", "sortedReleases"} \subseteq ReleaseExports

(* ---------------------------------------------------------------------- *)
(* Returning from version() / pair() to the caller                        *)
(* ---------------------------------------------------------------------- *)
\* a release loop that stops at the first release whose version call raises
Return_breaks(c, exc) ==
    /\ pc' = CASE c = "release" -> "releases"
               [] c = "pair" -> "pairs"
               [] OTHER -> "ready"
    /\ relIdx' = CASE c = "release" /\ exc -> Len(releases) + 1
                   [] c = "release" -> relIdx + 1
                   [] OTHER -> relIdx
    /\ doneReleases' = IF c = "release" /\ ~exc
                       THEN Append(doneReleases, releases[relIdx])
                       ELSE doneReleases
    /\ pairIdx' = IF c = "pair" THEN pairIdx + 1 ELSE pairIdx
    /\ donePairs' = IF c = "pair" /\ ~exc
                    THEN Append(donePairs, pairs[pairIdx])
                    ELSE donePairs
    /\ seen' = CASE c = "release" /\ exc ->
                     [seen EXCEPT !.raisedReleases = @ \cup {releases[relIdx]}]
                 [] c = "pair" /\ exc ->
                     [seen EXCEPT !.raisedPairs = @ \cup {pairs[pairIdx]}]
                 [] OTHER -> seen

\* exc: the call raised.  The release and pair loops of package catch the
\* exception and go on (lines 219-225, 240-246); a direct caller gets it.
Return(c, exc) ==
    /\ pc' = CASE c = "release" -> "releases"
               [] c = "pair" -> "pairs"
               [] OTHER -> "ready"
    /\ relIdx' = IF c = "release" THEN relIdx + 1 ELSE relIdx
    /\ doneReleases' = IF c = "release" /\ ~exc
                       THEN Append(doneReleases, releases[relIdx])
                       ELSE doneReleases
    /\ pairIdx' = IF c = "pair" THEN pairIdx + 1 ELSE pairIdx
    /\ donePairs' = IF c = "pair" /\ ~exc
                    THEN Append(donePairs, pairs[pairIdx])
                    ELSE donePairs
    /\ seen' = CASE c = "release" /\ exc ->
                     [seen EXCEPT !.raisedReleases = @ \cup {releases[relIdx]}]
                 [] c = "pair" /\ exc ->
                     [seen EXCEPT !.raisedPairs = @ \cup {pairs[pairIdx]}]
                 [] OTHER -> seen

\* a call whose skip path counts against the quota
Call_countsSkips(type, id, c) ==
    LET wv == WorkerVersionOf(workerVersion, toolVersion)
        key == JobKey(type, id)
        item == GetItem(db, key)
        isDone == hasDone(db, wv, type, id)
    IN  /\ workerVersion' = wv
        /\ lastCall' = [job |-> key, entry |-> item, adapter |-> toolVersion,
                        ran |-> ~isDone, calls |-> 0, codes |-> <<>>,
                        prior |-> key \in succeeded]
        /\ IF isDone
           THEN /\ Return(c, item.state # SUCCESS)
                /\ db' = [db EXCEPT !.processCount = @ + 1]
                /\ UNCHANGED <<curJob, ctx, raised, started, bodies>>
           ELSE /\ bodies < MaxBodies
                /\ bodies' = bodies + 1
                /\ curJob' = key
                /\ ctx' = c
                /\ raised' = FALSE
                /\ started' = started + 1
                /\ pc' = IF type = JOB_EXTRACT THEN "preprocess" ELSE "diff"
                /\ UNCHANGED <<relIdx, doneReleases, pairIdx, donePairs, seen,
                               db>>
        /\ UNCHANGED <<disk, toolVersion, confLimit, projects, dist,
                       projIdx, doneProjects, releases, pairs, elapsed,
                       succeeded, lastDone, exitKind, completed, mainVars>>
        /\ UNCHANGED pure
        /\ UNCHANGED indexing
        /\ UNCHANGED tool
        /\ UNCHANGED cacheDist

\* Processor.version / Processor.pair up to the `with wrapper():` line:
\* doOnce, the isinstance test and the assertion on the stored state
Call(type, id, c) ==
    LET wv == WorkerVersionOf(workerVersion, toolVersion)
        key == JobKey(type, id)
        item == GetItem(db, key)
        isDone == hasDone(db, wv, type, id)
    IN  /\ workerVersion' = wv
        /\ lastCall' = [job |-> key, entry |-> item, adapter |-> toolVersion,
                        ran |-> ~isDone, calls |-> 0, codes |-> <<>>,
                        prior |-> key \in succeeded]
        /\ IF isDone
           THEN /\ Return(c, item.state # SUCCESS)
                /\ UNCHANGED <<curJob, ctx, raised, started, bodies>>
           ELSE /\ bodies < MaxBodies
                /\ bodies' = bodies + 1
                /\ curJob' = key
                /\ ctx' = c
                /\ raised' = FALSE
                /\ started' = started + 1
                /\ pc' = IF type = JOB_EXTRACT THEN "preprocess" ELSE "diff"
                /\ UNCHANGED <<relIdx, doneReleases, pairIdx, donePairs, seen>>
        /\ UNCHANGED <<disk, toolVersion, confLimit, projects, dist, db,
                       projIdx, doneProjects, releases, pairs, elapsed,
                       succeeded, lastDone, exitKind, completed, mainVars>>
        /\ UNCHANGED pure
        /\ UNCHANGED indexing
        /\ UNCHANGED tool
        /\ UNCHANGED cacheDist

(* ---------------------------------------------------------------------- *)
(* Processor.index                                                        *)
(* ---------------------------------------------------------------------- *)
\* the pairs of neighbours of a list, in order
AdjacentPairs(rels) ==
    [i \in 1..(IF Len(rels) = 0 THEN 0 ELSE Len(rels) - 1) |->
        [old |-> rels[i], new |-> rels[i + 1]]]

Range(q) == {q[i] : i \in 1..Len(q)}

\* sortedReleases, the name index imports: the releases in ascending order
\* of version, as release.sortedVersions sorts them
sortedReleases(S) ==
    CHOOSE q \in [1..Cardinality(S) -> S] :
        \A i, j \in 1..Cardinality(S) : i < j => q[i].version < q[j].version

\* dist.distributions(project) and dist.apis(project): the releases that
\* have a file of the kind
ListReleases(t, kind, project) ==
    {r \in ReleasesOf(project) : t[<<kind, StrRelease(r)>>] # "absent"}

\* str(x) of a release or of a pair
Str(x) == IF "version" \in DOMAIN x THEN StrRelease(x) ELSE StrPair(x)

\* cleanLoad: the items whose file loads
Loaded(t, kind, items) ==
    SelectSeq(items, LAMBDA x : t[<<kind, Str(x)>>] = "valid")

\* cleanLoad: a file that does not load is removed
Cleaned(t, kind, items) ==
    [x \in Artifacts |->
        IF /\ x[1] = kind
           /\ t[x] = "corrupt"
           /\ \E i \in 1..Len(items) : Str(items[i]) = x[2]
        THEN "absent" ELSE t[x]]

\* an index body that lists the diff files of pairs it did not form
indexBody_anyChanges(t, project) ==
    LET fetched == sortedReleases(Range(getReleases(project)))
        dists == sortedReleases(ListReleases(t, "preprocess", project))
        distributions == Loaded(t, "preprocess", dists)
        t1 == Cleaned(t, "preprocess", dists)
        listed == sortedReleases(ListReleases(t1, "extract", project))
        apis == Loaded(t1, "extract", listed)
        t2 == Cleaned(t1, "extract", listed)
        prs == pair(apis, NoFilter)
        doneChanges == SelectSeq(AdjacentPairs(fetched), LAMBDA x :
                                        t2[<<"diff", StrPair(x)>>] # "absent")
        changes == Loaded(t2, "diff", doneChanges)
        t3 == Cleaned(t2, "diff", doneChanges)
        doneReports == SelectSeq(prs, LAMBDA x :
                                        t3[<<"report", StrPair(x)>>] # "absent")
        reports == Loaded(t3, "report", doneReports)
        t4 == Cleaned(t3, "report", doneReports)
    IN  [raised |-> FALSE,
         tree |-> t4,
         doc |-> [written |-> TRUE,
                  releases |-> sortedReleases(Range(fetched)
                                                \cup Range(distributions)
                                                \cup Range(apis)),
                  distributions |-> distributions,
                  apis |-> apis,
                  pairs |-> prs,
                  changes |-> changes,
                  reports |-> reports]]

\* the body of index after its import, lines 271-331
indexBody(t, project) ==
    LET fetched == sortedReleases(Range(getReleases(project)))
        dists == sortedReleases(ListReleases(t, "preprocess", project))
        distributions == Loaded(t, "preprocess", dists)
        t1 == Cleaned(t, "preprocess", dists)
        listed == sortedReleases(ListReleases(t1, "extract", project))
        apis == Loaded(t1, "extract", listed)
        t2 == Cleaned(t1, "extract", listed)
        prs == pair(apis, NoFilter)
        doneChanges == SelectSeq(prs, LAMBDA x :
                                        t2[<<"diff", StrPair(x)>>] # "absent")
        changes == Loaded(t2, "diff", doneChanges)
        t3 == Cleaned(t2, "diff", doneChanges)
        doneReports == SelectSeq(prs, LAMBDA x :
                                        t3[<<"report", StrPair(x)>>] # "absent")
        reports == Loaded(t3, "report", doneReports)
        t4 == Cleaned(t3, "report", doneReports)
    IN  [raised |-> FALSE,
         tree |-> t4,
         doc |-> [written |-> TRUE,
                  releases |-> sortedReleases(Range(fetched)
                                                \cup Range(distributions)
                                                \cup Range(apis)),
                  distributions |-> distributions,
                  apis |-> apis,
                  pairs |-> prs,
                  changes |-> changes,
                  reports |-> reports]]

\* the files of releases of the project that cleanLoad cannot load
Unloadable(t, project) ==
    {x \in ArtifactsOf(project) : x[1] \in ReleaseKinds /\ t[x] = "corrupt"}

\* index(project): line 269 imports first, and a failing import raises
\* before anything is read or written
index(t, project) ==
    IF ImportSucceeds THEN indexBody(t, project)
    ELSE [raised |-> TRUE, tree |-> t, doc |-> NoDoc]

(* ---------------------------------------------------------------------- *)
(* The job body inside ProcessDB.do                                       *)
(* ---------------------------------------------------------------------- *)
\* the body raised: the except branch of ProcessDB.do
BodyFails ==
    /\ db' = done(db, curJob, workerVersion, FAILURE)
    /\ lastDone' = [job |-> curJob,
                    entry |-> ProcessResult(workerVersion, FAILURE)]
    /\ raised' = TRUE
    /\ pc' = "finally"
    /\ UNCHANGED <<succeeded, completed>>

\* the body returned: the line after `yield` in ProcessDB.do
BodySucceeds ==
    /\ db' = done(db, curJob, workerVersion, SUCCESS)
    /\ lastDone' = [job |-> curJob,
                    entry |-> ProcessResult(workerVersion, SUCCESS)]
    /\ succeeded' = succeeded \cup {curJob}
    /\ completed' = completed \cup {<<curJob, workerVersion>>}
    /\ raised' = FALSE
    /\ pc' = "finally"

\* the artifact file the step writes
Target(at) == <<at, curJob[2]>>

\* processPair, lines 161-166: an endpoint API absent from the cache is
\* copied there from the distribution tree, the old endpoint first;
\* read_bytes raises when the file is absent from the distribution tree too
Copied(at) ==
    IF at # "diff" THEN [raised |-> FALSE, cache |-> cache]
    ELSE LET old == <<"extract", <<curJob[2][1], curJob[2][2]>> >>
             new == <<"extract", <<curJob[2][1], curJob[2][3]>> >>
             oldOk == old \in cache \/ tree[old] # "absent"
             c1 == IF oldOk THEN cache \cup {old} ELSE cache
             newOk == new \in c1 \/ tree[new] # "absent"
         IN  [raised |-> ~(oldOk /\ newOk),
              cache |-> IF oldOk /\ newOk THEN c1 \cup {new} ELSE c1]

\* both endpoint APIs of the pair can be had
EndpointsPresent(at) == ~Copied(at).raised

\* what a tool run with exit code 0 printed for the artifact of the step
Printed(at) ==
    IF Target(at) \in unparsable THEN "corrupt" ELSE "valid"

\* result.ensure().save(path) after a run with exit code 0: the artifact of
\* the step is written under the distribution root
Saved(at) == [tree EXCEPT ![Target(at)] = Printed(at)]

\* a step that publishes the output of a failed tool run too
Distributed_always(at, code) == Saved(at)

\* result.ensure().save(self.dist....): ensure raises on a non-zero exit
\* code before save is reached
Distributed(at, code) == IF ensure(code) THEN Saved(at) ELSE tree

\* processVersion, lines 139-140 and 158: the wheels directory of the
\* project is made before the preprocess call and removed by the last
\* statement of processVersion
Wheels(at, code) ==
    CASE at = "preprocess" -> wheels \cup {curJob[2][1]}
      [] at = "extract" -> IF ensure(code) THEN wheels \ {curJob[2][1]}
                           ELSE wheels
      [] OTHER -> wheels

\* the first of the two worker calls of a body
FirstStep(at, next) ==
    /\ pc = at
    /\ IF EndpointsPresent(at)
       THEN \E code \in ExitCodes :
                /\ IF ensure(code)
                   THEN /\ pc' = next
                        /\ UNCHANGED <<db, lastDone, raised, succeeded,
                                       completed>>
                   ELSE BodyFails
                /\ cache' = Copied(at).cache \cup {Target(at)}
                /\ tree' = Distributed(at, code)
                /\ wheels' = Wheels(at, code)
                /\ lastCall' = [lastCall EXCEPT !.calls = @ + 1,
                                                !.codes = Append(@, code)]
       ELSE /\ BodyFails
            /\ cache' = Copied(at).cache
            /\ UNCHANGED <<tree, wheels, lastCall>>
    /\ UNCHANGED <<disk, toolVersion, bodies, confLimit, projects, manifest,
                   indexDoc, workerVersion, clientCalls, loops, curJob, ctx,
                   started, exitKind, mainVars>>
    /\ UNCHANGED pure
    /\ UNCHANGED indexing
    /\ UNCHANGED tool

\* the second of the two worker calls of a body
SecondStep(at) ==
    /\ pc = at
    /\ \E code \in ExitCodes :
          /\ IF ensure(code) THEN BodySucceeds ELSE BodyFails
          /\ cache' = cache \cup {Target(at)}
          /\ tree' = Distributed(at, code)
          /\ wheels' = Wheels(at, code)
          /\ lastCall' = [lastCall EXCEPT !.calls = @ + 1,
                                          !.codes = Append(@, code)]
    /\ UNCHANGED <<disk, toolVersion, bodies, confLimit, projects, manifest,
                   indexDoc, workerVersion, clientCalls, loops, curJob, ctx,
                   started, exitKind, mainVars>>
    /\ UNCHANGED pure
    /\ UNCHANGED indexing
    /\ UNCHANGED tool

\* Processor.processVersion
Preprocess == FirstStep("preprocess", "extract")
Extract == SecondStep("extract")

\* Processor.processPair
Diff == FirstStep("diff", "report")
Report == SecondStep("report")

\* the finally block of ProcessDB.do, quota reached: save and exit(0).
\* SystemExit is not an Exception, no handler of package/packages stops it.
DoFinallyExit ==
    /\ pc = "finally"
    /\ LET d == [db EXCEPT !.processCount = @ + 1] IN
          /\ quotaReached(d)
          /\ disk' = save(d)
    /\ pc' = "idle"
    /\ exitKind' = "quota"
    /\ MemoryGone
    /\ succeeded' = {}
    /\ lastCall' = NoCall
    /\ UNCHANGED <<toolVersion, bodies, confLimit, projects, dist, started,
                   lastDone, completed, mainVars>>
    /\ UNCHANGED pure
    /\ UNCHANGED tool
    /\ UNCHANGED cacheDist

\* the finally block of ProcessDB.do, quota not reached: the with
\* statement ends and version()/pair() returns or re-raises
DoFinallyReturn ==
    /\ pc = "finally"
    /\ LET d == [db EXCEPT !.processCount = @ + 1] IN
          /\ ~quotaReached(d)
          /\ db' = d
    /\ Return(ctx, raised)
    /\ curJob' = NoJob
    /\ ctx' = "none"
    /\ raised' = FALSE
    /\ UNCHANGED <<persistent, workerVersion, clientCalls, projIdx,
                   doneProjects, releases, pairs, elapsed, started, succeeded,
                   lastCall, lastDone, exitKind, completed, mainVars>>
    /\ UNCHANGED pure
    /\ UNCHANGED indexing
    /\ UNCHANGED tool
    /\ UNCHANGED cacheDist

(* ---------------------------------------------------------------------- *)
(* Processor.packages and Processor.package                               *)
(* ---------------------------------------------------------------------- *)
\* the clock passes the timeout while packages runs
Tick ==
    /\ pc \notin {"idle", "loaded", "ready"}
    /\ projIdx > 0
    /\ projIdx <= Len(projects)
    /\ ~elapsed
    /\ elapsed' = TRUE
    /\ UNCHANGED <<persistent, process, projIdx, doneProjects, releases,
                   relIdx, doneReleases, pairs, pairIdx, donePairs, seen,
                   job, history, mainVars>>
    /\ UNCHANGED pure
    /\ UNCHANGED indexing
    /\ UNCHANGED tool
    /\ UNCHANGED cacheDist

\* packages, lines 369-371 and 385: the timeout has passed; break, write
\* doneProjects to packages.json and return
PackagesTimeout ==
    /\ pc = "packages"
    /\ projIdx <= Len(projects)
    /\ elapsed
    /\ projIdx' = Len(projects) + 1
    /\ manifest' = doneProjects
    /\ elapsed' = FALSE
    /\ seen' = [seen EXCEPT !.timedOut = TRUE]
    /\ pc' = "ready"
    /\ UNCHANGED <<disk, toolVersion, bodies, confLimit, projects, tree,
                   indexDoc, db, workerVersion, clientCalls, doneProjects,
                   releases, relIdx, doneReleases, pairs, pairIdx, donePairs,
                   job, history, mainVars>>
    /\ UNCHANGED pure
    /\ UNCHANGED indexing
    /\ UNCHANGED tool
    /\ UNCHANGED cacheDist

\* packages, line 385: the loop is over; write doneProjects to
\* packages.json and return; the timer is local to the call
PackagesEnd ==
    /\ pc = "packages"
    /\ projIdx > Len(projects)
    /\ manifest' = doneProjects
    /\ elapsed' = FALSE
    /\ pc' = "ready"
    /\ UNCHANGED <<disk, toolVersion, bodies, confLimit, projects, tree,
                   indexDoc, db, workerVersion, clientCalls, projIdx,
                   doneProjects, releases, relIdx, doneReleases, pairs,
                   pairIdx, donePairs, seen, job, history, mainVars>>
    /\ UNCHANGED pure
    /\ UNCHANGED indexing
    /\ UNCHANGED tool
    /\ UNCHANGED cacheDist

\* a packages loop that appends the project before it knows the outcome
ProjectEnds_appends(exc) ==
    /\ doneProjects' = Append(doneProjects, projects[projIdx])
    /\ projIdx' = projIdx + 1
    /\ pc' = "packages"

\* packages, lines 380-384: package returned and the project is appended
\* to doneProjects, or package raised and the failure is logged; the loop
\* goes on with the next project either way
ProjectEnds(exc) ==
    /\ doneProjects' = IF exc THEN doneProjects
                       ELSE Append(doneProjects, projects[projIdx])
    /\ projIdx' = projIdx + 1
    /\ pc' = "packages"

\* packages starting the project without looking at the clock
PackageStart_noTimeout ==
    /\ pc = "packages"
    /\ projIdx <= Len(projects)
    /\ projects[projIdx] # "python"
    /\ releases' = getReleases(projects[projIdx])
    /\ relIdx' = 1
    /\ doneReleases' = <<>>
    /\ pairs' = <<>>
    /\ pairIdx' = 0
    /\ donePairs' = <<>>
    /\ seen' = [seen EXCEPT !.begun = Append(@, projects[projIdx]),
                            !.raisedReleases = {}, !.raisedPairs = {}]
    /\ pc' = "releases"
    /\ UNCHANGED <<persistent, db, workerVersion, clientCalls, projIdx,
                   doneProjects, elapsed, job, history, mainVars>>
    /\ UNCHANGED pure
    /\ UNCHANGED indexing
    /\ UNCHANGED tool
    /\ UNCHANGED cacheDist

\* packages, lines 369-374, and package, lines 204-215: the timeout has
\* not passed, package starts and fetches the releases of the project
PackageStart ==
    /\ pc = "packages"
    /\ projIdx <= Len(projects)
    /\ ~elapsed
    /\ projects[projIdx] # "python"
    /\ releases' = getReleases(projects[projIdx])
    /\ relIdx' = 1
    /\ doneReleases' = <<>>
    /\ pairs' = <<>>
    /\ pairIdx' = 0
    /\ donePairs' = <<>>
    /\ seen' = [seen EXCEPT !.begun = Append(@, projects[projIdx]),
                            !.raisedReleases = {}, !.raisedPairs = {}]
    /\ pc' = "releases"
    /\ UNCHANGED <<persistent, db, workerVersion, clientCalls, projIdx,
                   doneProjects, elapsed, job, history, mainVars>>
    /\ UNCHANGED pure
    /\ UNCHANGED indexing
    /\ UNCHANGED tool
    /\ UNCHANGED cacheDist

\* package, line 210: the metadata source fails, getReleases raises and so
\* does package; packages catches it
PackageFetchFails ==
    /\ pc = "packages"
    /\ projIdx <= Len(projects)
    /\ ~elapsed
    /\ ProjectEnds(TRUE)
    /\ seen' = [seen EXCEPT !.begun = Append(@, projects[projIdx]),
                            !.unfetched = @ \cup {projects[projIdx]},
                            !.failed = @ \cup {projects[projIdx]}]
    /\ UNCHANGED <<persistent, db, workerVersion, clientCalls, releases,
                   relIdx, doneReleases, pairs, pairIdx, donePairs, elapsed,
                   job, history, mainVars>>
    /\ UNCHANGED pure
    /\ UNCHANGED indexing
    /\ UNCHANGED tool
    /\ UNCHANGED cacheDist

\* package, lines 216-225: version(release) for the next release
ReleaseNext ==
    /\ pc = "releases"
    /\ relIdx <= Len(releases)
    /\ Call(JOB_EXTRACT, StrRelease(releases[relIdx]), "release")
    /\ UNCHANGED clientCalls

\* package pairing every release of the project, done or not
ReleasesEnd_allReleases ==
    /\ pc = "releases"
    /\ relIdx > Len(releases)
    /\ pairs' = pair(releases, NoFilter)
    /\ pairIdx' = 1
    /\ donePairs' = <<>>
    /\ pc' = "pairs"
    /\ UNCHANGED <<persistent, db, workerVersion, clientCalls, projIdx,
                   doneProjects, releases, relIdx, doneReleases, elapsed,
                   seen, job, history, mainVars>>
    /\ UNCHANGED pure
    /\ UNCHANGED indexing
    /\ UNCHANGED tool
    /\ UNCHANGED cacheDist

\* package, lines 231-236: the pairs over the releases that succeeded
ReleasesEnd ==
    /\ pc = "releases"
    /\ relIdx > Len(releases)
    /\ pairs' = pair(doneReleases, NoFilter)
    /\ pairIdx' = 1
    /\ donePairs' = <<>>
    /\ pc' = "pairs"
    /\ UNCHANGED <<persistent, db, workerVersion, clientCalls, projIdx,
                   doneProjects, releases, relIdx, doneReleases, elapsed,
                   seen, job, history, mainVars>>
    /\ UNCHANGED pure
    /\ UNCHANGED indexing
    /\ UNCHANGED tool
    /\ UNCHANGED cacheDist

\* package, lines 237-246: pair(pair) for the next pair
PairNext ==
    /\ pc = "pairs"
    /\ pairIdx <= Len(pairs)
    /\ Call(JOB_DIFF, StrPair(pairs[pairIdx]), "pair")
    /\ UNCHANGED clientCalls

\* package calling index only when some pair was done
PairsEnd_skipsIndex ==
    /\ pc = "pairs"
    /\ pairIdx > Len(pairs)
    /\ IF donePairs = <<>>
       THEN /\ doneProjects' = Append(doneProjects, projects[projIdx])
            /\ projIdx' = projIdx + 1
            /\ pc' = "packages"
       ELSE /\ pc' = "index"
            /\ UNCHANGED <<doneProjects, projIdx>>
    /\ UNCHANGED <<persistent, db, workerVersion, clientCalls, releases,
                   relIdx, doneReleases, pairs, pairIdx, donePairs, elapsed,
                   seen, job, history, mainVars>>
    /\ UNCHANGED pure
    /\ UNCHANGED indexing
    /\ UNCHANGED tool
    /\ UNCHANGED cacheDist

\* package, line 252, reached when the pair loop is over
PairsEnd ==
    /\ pc = "pairs"
    /\ pairIdx > Len(pairs)
    /\ pc' = "index"
    /\ UNCHANGED <<persistent, db, workerVersion, clientCalls, loops, job,
                   history, mainVars>>
    /\ UNCHANGED pure
    /\ UNCHANGED indexing
    /\ UNCHANGED tool
    /\ UNCHANGED cacheDist

\* package, line 252: index(project); it raises, package raises with it and
\* packages logs the failure (lines 381-384)
Index ==
    /\ pc = "index"
    /\ LET res == index(tree, projects[projIdx]) IN
          /\ ProjectEnds(res.raised)
          /\ tree' = res.tree
          /\ indexDoc' = IF res.raised THEN indexDoc
                         ELSE [indexDoc EXCEPT ![projects[projIdx]] = res.doc]
          /\ seen' = [seen EXCEPT
                         !.indexed = Append(@, projects[projIdx]),
                         !.unloadable =
                             @ \cup Unloadable(tree, projects[projIdx]),
                         !.failed = IF res.raised
                                    THEN @ \cup {projects[projIdx]}
                                    ELSE @]
    /\ UNCHANGED <<disk, toolVersion, bodies, confLimit, projects, manifest,
                   db, workerVersion, clientCalls, releases,
                   relIdx, doneReleases, pairs, pairIdx, donePairs, elapsed,
                   job, history, mainVars>>
    /\ UNCHANGED pure
    /\ UNCHANGED indexing
    /\ UNCHANGED tool
    /\ UNCHANGED cacheDist

(* ---------------------------------------------------------------------- *)
(* A process that uses the library                                        *)
(* ---------------------------------------------------------------------- *)
\* db = ProcessDB.load(path)
RunLoad ==
    /\ pc = "idle"
    /\ LET res == load(disk, ConfPath) IN
          IF res.raised
          THEN /\ pc' = "idle"
               /\ exitKind' = "crashed"
               /\ db' = NoDb
          ELSE /\ pc' = "loaded"
               /\ exitKind' = "none"
               /\ db' = res.db
    /\ started' = 0
    /\ succeeded' = {}
    /\ lastCall' = NoCall
    /\ lastDone' = NoDone
    /\ UNCHANGED <<persistent, workerVersion, clientCalls, loops, job,
                   completed, mainVars>>
    /\ UNCHANGED pure
    /\ UNCHANGED indexing
    /\ UNCHANGED tool
    /\ UNCHANGED cacheDist

\* db.processLimit = ...; Processor(worker, db, dist)
Configure ==
    /\ pc = "loaded"
    /\ db' = [db EXCEPT !.processLimit = confLimit]
    /\ pc' = "ready"
    /\ UNCHANGED <<persistent, workerVersion, clientCalls, loops, job,
                   history, mainVars>>
    /\ UNCHANGED pure
    /\ UNCHANGED indexing
    /\ UNCHANGED tool
    /\ UNCHANGED cacheDist

\* processor.packages(*conf.packages, timeout=...)
ClientPackages ==
    /\ pc = "ready"
    /\ projIdx = 0
    /\ projIdx' = 1
    /\ doneProjects' = <<>>
    /\ elapsed' = FALSE
    /\ seen' = NoSeen
    /\ pc' = "packages"
    /\ UNCHANGED <<persistent, db, workerVersion, clientCalls, releases,
                   relIdx, doneReleases, pairs, pairIdx, donePairs, job,
                   history, mainVars>>
    /\ UNCHANGED pure
    /\ UNCHANGED indexing
    /\ UNCHANGED tool
    /\ UNCHANGED cacheDist

\* dist.projects(): the project directories under the distribution root,
\* those that hold a file
projects_(t) ==
    SelectSeq(<<"a", "b", "c">>,
              LAMBDA project : \E x \in ArtifactsOf(project) : t[x] # "absent")

\* processor.indexPackages(), lines 387-389
ClientIndexPackages ==
    /\ pc = "ready"
    /\ projIdx = 0
    /\ toIndex' = projects_(tree)
    /\ projIdx' = 1
    /\ doneProjects' = <<>>
    /\ seen' = NoSeen
    /\ pc' = "indexing"
    /\ UNCHANGED <<persistent, db, workerVersion, clientCalls, releases,
                   relIdx, doneReleases, pairs, pairIdx, donePairs, elapsed,
                   job, history, mainVars>>
    /\ UNCHANGED pure
    /\ UNCHANGED tool
    /\ UNCHANGED cacheDist

\* indexPackages, lines 389-400: index(project) for the next project; it
\* raises and the failure is logged
IndexPackagesNext ==
    /\ pc = "indexing"
    /\ projIdx <= Len(toIndex)
    /\ toIndex[projIdx] # "python"
    /\ LET res == index(tree, toIndex[projIdx]) IN
          /\ tree' = res.tree
          /\ indexDoc' = IF res.raised THEN indexDoc
                         ELSE [indexDoc EXCEPT ![toIndex[projIdx]] = res.doc]
          /\ doneProjects' = IF res.raised THEN doneProjects
                             ELSE Append(doneProjects, toIndex[projIdx])
          /\ seen' = [seen EXCEPT
                         !.indexed = Append(@, toIndex[projIdx]),
                         !.unloadable =
                             @ \cup Unloadable(tree, toIndex[projIdx]),
                         !.failed = IF res.raised
                                    THEN @ \cup {toIndex[projIdx]}
                                    ELSE @]
    /\ projIdx' = projIdx + 1
    /\ UNCHANGED <<disk, toolVersion, bodies, confLimit, projects, manifest,
                   process, releases, relIdx, doneReleases, pairs, pairIdx,
                   donePairs, elapsed, job, history, mainVars>>
    /\ UNCHANGED pure
    /\ UNCHANGED indexing
    /\ UNCHANGED tool
    /\ UNCHANGED cacheDist

\* indexPackages, line 401: write doneProjects to packages.json and return
IndexPackagesEnd ==
    /\ pc = "indexing"
    /\ projIdx > Len(toIndex)
    /\ manifest' = doneProjects
    /\ pc' = "ready"
    /\ UNCHANGED <<disk, toolVersion, bodies, confLimit, projects, tree,
                   indexDoc, db, workerVersion, clientCalls, loops, job,
                   history, mainVars>>
    /\ UNCHANGED pure
    /\ UNCHANGED indexing
    /\ UNCHANGED tool
    /\ UNCHANGED cacheDist

\* processor.version(release), called directly
ClientVersion ==
    /\ pc = "ready"
    /\ projIdx > 0
    /\ clientCalls < MaxClientCalls
    /\ clientCalls' = clientCalls + 1
    /\ \E k \in 1..Len(projects) :
          \E r \in ReleasesOf(projects[k]) :
              Call(JOB_EXTRACT, StrRelease(r), "client")

\* db.save() and the end of the process
ClientSave ==
    /\ pc = "ready"
    /\ disk' = save(db)
    /\ pc' = "idle"
    /\ exitKind' = "natural"
    /\ MemoryGone
    /\ succeeded' = {}
    /\ lastCall' = NoCall
    /\ UNCHANGED <<toolVersion, bodies, confLimit, projects, dist, started,
                   lastDone, completed, mainVars>>
    /\ UNCHANGED pure
    /\ UNCHANGED tool
    /\ UNCHANGED cacheDist

\* the ledger is about to be written: write_text is not atomic
Saving ==
    \/ pc = "ready"
    \/ pc = "finally" /\ quotaReached([db EXCEPT !.processCount = @ + 1])

\* the process is killed from outside; a kill during write_text leaves a
\* truncated file
Kill ==
    /\ pc # "idle"
    /\ disk' \in IF Saving THEN {disk, FileCorrupt} ELSE {disk}
    /\ pc' = "idle"
    /\ exitKind' = "killed"
    /\ MemoryGone
    /\ ObservationsGone
    /\ UNCHANGED <<toolVersion, bodies, confLimit, projects, dist, completed,
                   mainVars>>
    /\ UNCHANGED pure
    /\ UNCHANGED tool
    /\ UNCHANGED cacheDist

\* a later build of the tool is installed between two processes
ToolUpgrade ==
    /\ pc = "idle"
    /\ \E v \in Versions : v > toolVersion /\ toolVersion' = v
    /\ UNCHANGED <<disk, bodies, confLimit, projects, dist, process, loops,
                   job, history, mainVars>>
    /\ UNCHANGED pure
    /\ UNCHANGED indexing
    /\ UNCHANGED tool
    /\ UNCHANGED cacheDist

(* ---------------------------------------------------------------------- *)
(* The entry point                                                        *)
(* ---------------------------------------------------------------------- *)
\* python -m index: lines 12-37 run and line 37 is exit(0); ProcessDB.load
\* (line 39), packages (line 58) and db.save (line 59) are never reached
Main ==
    /\ pc = "idle"
    /\ exitKind # "main"
    /\ exitKind' = "main"
    /\ ObservationsGone
    /\ UNCHANGED <<mainLoads, mainSaves>>
    /\ UNCHANGED <<persistent, process, loops, job, completed>>
    /\ UNCHANGED pure
    /\ UNCHANGED indexing
    /\ UNCHANGED tool
    /\ UNCHANGED cacheDist

\* the processes of a deployment whose packages runs without a timeout
\* (timeout=None, the default) and whose metadata source answers
Next ==
    \/ RunLoad
    \/ Configure
    \/ ClientPackages
    \/ ClientVersion
    \/ ClientSave
    \/ PackagesEnd
    \/ PackageStart
    \/ ReleaseNext
    \/ ReleasesEnd
    \/ PairNext
    \/ PairsEnd
    \/ Index
    \/ Preprocess
    \/ Extract
    \/ Diff
    \/ Report
    \/ DoFinallyExit
    \/ DoFinallyReturn
    \/ Kill
    \/ ToolUpgrade
    \/ Main

Spec == Init /\ [][Next]_vars

(* ---------------------------------------------------------------------- *)
(* packages with a timeout and a metadata source that can fail            *)
(* ---------------------------------------------------------------------- *)
\* a fresh deployment: no ledger file, an empty distribution tree
InitProjects ==
    /\ ProgramInit
    /\ disk = FileMissing
    /\ confLimit \in Limits
    /\ projects = Projects
    /\ tree = EmptyTree
    /\ indexDoc = NoDocs
    /\ unparsable = {}
    /\ pairArgs = NoArgs
    /\ pairRet = NotCalled
    /\ sortArgs = <<>>
    /\ sortRet = NotCalled

NextProjects ==
    \/ RunLoad
    \/ Configure
    \/ ClientPackages
    \/ ClientSave
    \/ Tick
    \/ PackagesTimeout
    \/ PackagesEnd
    \/ PackageStart
    \/ PackageFetchFails
    \/ ReleaseNext
    \/ ReleasesEnd
    \/ PairNext
    \/ PairsEnd
    \/ Index
    \/ Preprocess
    \/ Extract
    \/ Diff
    \/ Report
    \/ DoFinallyExit
    \/ DoFinallyReturn

SpecProjects == InitProjects /\ [][NextProjects]_vars

(* ---------------------------------------------------------------------- *)
(* One deployment that follows project "c", without quota and timeout     *)
(* ---------------------------------------------------------------------- *)
\* the ledgers earlier processes of the deployment can have left: for each
\* release of the project nothing, a Success or a Failure
LeftEntries == {NoEntry, ProcessResult(1, SUCCESS), ProcessResult(1, FAILURE)}
LeftData ==
    {[j \in Jobs |-> IF j \in DOMAIN f THEN f[j] ELSE NoEntry] :
        f \in [{JobKey(JOB_EXTRACT, StrRelease(r)) : r \in ReleasesOf("c")}
                 -> LeftEntries]}
LeftFile(d) ==
    FileValid([path |-> ConfPath, data |-> d, processLimit |-> NoLimit,
               processCount |-> 0])

\* the tree those processes left: the two artifacts of each release whose
\* job succeeded
LeftTree(d) ==
    [x \in Artifacts |->
        IF /\ x[1] \in ReleaseKinds
           /\ d[JobKey(JOB_EXTRACT, x[2])].state = SUCCESS
        THEN "valid" ELSE "absent"]

\* the tool prints what does not parse for at most MaxCorrupt artifacts
Unparsables ==
    {U \in SUBSET ArtifactsOf("c") : Cardinality(U) <= MaxCorrupt}

InitPackage ==
    /\ ProgramInit
    /\ \E d \in LeftData, U \in Unparsables :
          /\ d = EmptyData \/ U = {}
          /\ disk = LeftFile(d)
          /\ tree = LeftTree(d)
          /\ unparsable = U
    /\ indexDoc = NoDocs
    /\ confLimit = NoLimit
    /\ projects = ProjectsThree
    /\ pairArgs = NoArgs
    /\ pairRet = NotCalled
    /\ sortArgs = <<>>
    /\ sortRet = NotCalled

NextPackage ==
    \/ RunLoad
    \/ Configure
    \/ ClientPackages
    \/ ClientSave
    \/ PackagesEnd
    \/ PackageStart
    \/ PackageFetchFails
    \/ ReleaseNext
    \/ ReleasesEnd
    \/ PairNext
    \/ PairsEnd
    \/ Index
    \/ Preprocess
    \/ Extract
    \/ Diff
    \/ Report
    \/ DoFinallyReturn

SpecPackage == InitPackage /\ [][NextPackage]_vars

(* ---------------------------------------------------------------------- *)
(* The command "index": indexPackages over a tree earlier runs left       *)
(* ---------------------------------------------------------------------- *)
InitIndex ==
    /\ ProgramInit
    /\ disk = FileMissing
    /\ confLimit = NoLimit
    /\ projects = Projects
    /\ tree \in SmallTrees
    /\ unparsable = {}
    /\ indexDoc \in {NoDocs, [NoDocs EXCEPT !["a"] = OldDoc]}
    /\ pairArgs = NoArgs
    /\ pairRet = NotCalled
    /\ sortArgs = <<>>
    /\ sortRet = NotCalled

NextIndex ==
    \/ RunLoad
    \/ Configure
    \/ ClientIndexPackages
    \/ IndexPackagesNext
    \/ IndexPackagesEnd
    \/ ClientSave

SpecIndex == InitIndex /\ [][NextIndex]_vars

(* ---------------------------------------------------------------------- *)
(* The body of Processor.index on its own                                 *)
(* ---------------------------------------------------------------------- *)
\* no process is running; the statements of index that follow its import
\* are about to be applied to a distribution tree
InitIndexBody ==
    /\ ProgramInit
    /\ disk = FileMissing
    /\ confLimit = NoLimit
    /\ projects = Projects
    /\ tree \in SmallTrees
    /\ unparsable = {}
    /\ indexDoc = NoDocs
    /\ pairArgs = NoArgs
    /\ pairRet = NotCalled
    /\ sortArgs = <<>>
    /\ sortRet = NotCalled

\* lines 271-363 of index(project)
IndexBodyCall ==
    /\ \E k \in 1..Len(projects) :
          LET res == indexBody(tree, projects[k]) IN
              /\ tree' = res.tree
              /\ indexDoc' = [indexDoc EXCEPT ![projects[k]] = res.doc]
    /\ UNCHANGED <<disk, toolVersion, bodies, confLimit, projects, manifest,
                   tool, cacheDist, process, loops, indexing, job, history,
                   mainVars, pure>>

NextIndexBody == IndexBodyCall

SpecIndexBody == InitIndexBody /\ [][NextIndexBody]_vars

(* ---------------------------------------------------------------------- *)
(* release.pair on its own                                                *)
(* ---------------------------------------------------------------------- *)
\* no process is running; release.pair is about to be called
InitPair ==
    /\ ProgramInit
    /\ projects = Projects
    /\ tree = EmptyTree
    /\ indexDoc = NoDocs
    /\ unparsable = {}
    /\ disk = FileMissing
    /\ confLimit = NoLimit
    /\ pairArgs \in [releases : PairInputs, filter : Filters]
    /\ pairRet = NotCalled
    /\ sortArgs = <<>>
    /\ sortRet = NotCalled

\* pair(releases, filter)
PairCall ==
    /\ ~pairRet.called
    /\ pairRet' = [called |-> TRUE,
                   value |-> pair(pairArgs.releases, pairArgs.filter)]
    /\ UNCHANGED <<pairArgs, sortArgs, sortRet, program>>

NextPair == PairCall

SpecPair == InitPair /\ [][NextPair]_vars

(* ---------------------------------------------------------------------- *)
(* release.sortedVersions on its own                                      *)
(* ---------------------------------------------------------------------- *)
MaxSortLen == 3

\* version strings by what the two comparators make of them: the rank that
\* packaging.version gives (pep) and the rank that semver gives (sem), 0
\* where the comparator raises on the string.
\*   "1.0"  "1.0.0"  "2.0.0"  "2.0.0+b"  "1.0.0-x"  "x"
VersionStrings ==
    {[pep |-> 1, sem |-> 0], [pep |-> 1, sem |-> 2], [pep |-> 2, sem |-> 3],
     [pep |-> 3, sem |-> 3], [pep |-> 0, sem |-> 1], [pep |-> 0, sem |-> 0]}

\* the lists sortedVersions is called with
SortInputs ==
    UNION {[1..n -> [project : {"a"}, version : VersionStrings]] :
              n \in 0..MaxSortLen}

\* the rank of a release under compareVersion ("pep") or semver.compare
Rank(r, by) == IF by = "pep" THEN r.version.pep ELSE r.version.sem

\* the orders of the elements of a list
Permutations_(q) ==
    {[i \in 1..Len(q) |-> q[f[i]]] :
        f \in {g \in [1..Len(q) -> 1..Len(q)] :
                  \A i, j \in 1..Len(q) : i # j => g[i] # g[j]}}

\* list.sort succeeding: a stable sort by the comparator
RECURSIVE Sorted(_, _)
Sorted(q, by) ==
    IF q = <<>> THEN <<>>
    ELSE LET s == Sorted(SubSeq(q, 1, Len(q) - 1), by)
             x == q[Len(q)]
             n == Cardinality({i \in 1..Len(s) : Rank(s[i], by) <= Rank(x, by)})
         IN  SubSeq(s, 1, n) \o <<x>> \o SubSeq(s, n + 1, Len(s))

\* versions.sort(key=cmp_to_key(...)): with two elements or more every
\* element is compared, and the comparator raises on a string it cannot
\* parse; the list is then left in the order the sort had reached
Sort(q, by, left) ==
    IF Len(q) >= 2 /\ \E i \in 1..Len(q) : Rank(q[i], by) = 0
    THEN [raised |-> TRUE, versions |-> left]
    ELSE [raised |-> FALSE, versions |-> Sorted(q, by)]

\* a sortedVersions that goes on with the list a failed sort left
sortedVersions_noCopy(rels, left1, left2) ==
    LET first == Sort(rels, "pep", left1) IN
        IF ~first.raised THEN first.versions
        ELSE LET second == Sort(first.versions, "sem", left2) IN
                 IF ~second.raised THEN second.versions
                 ELSE second.versions

\* sortedVersions(releases); left1 and left2 are the orders a failed first
\* and second sort leave in `versions`
sortedVersions(rels, left1, left2) ==
    LET first == Sort(rels, "pep", left1) IN
        IF ~first.raised THEN first.versions
        ELSE LET second == Sort(rels, "sem", left2) IN
                 IF ~second.raised THEN second.versions
                 ELSE rels

InitSort ==
    /\ ProgramInit
    /\ projects = Projects
    /\ tree = EmptyTree
    /\ indexDoc = NoDocs
    /\ unparsable = {}
    /\ disk = FileMissing
    /\ confLimit = NoLimit
    /\ pairArgs = NoArgs
    /\ pairRet = NotCalled
    /\ sortArgs \in SortInputs
    /\ sortRet = NotCalled

\* sortedVersions(releases)
SortCall ==
    /\ ~sortRet.called
    /\ \E left1, left2 \in Permutations_(sortArgs) :
          sortRet' = [called |-> TRUE,
                      value |-> sortedVersions(sortArgs, left1, left2)]
    /\ UNCHANGED <<pairArgs, pairRet, sortArgs, program>>

NextSort == SortCall

SpecSort == InitSort /\ [][NextSort]_vars

(* ---------------------------------------------------------------------- *)
(* Properties                                                             *)
(* ---------------------------------------------------------------------- *)
\* a job body is executing (entered and not yet left)
InBody == curJob # NoJob

\* a worker call of the job body is still to be made
Executing == pc \in {"preprocess", "extract", "diff", "report"}

\* the ledger entry of a job in the ledger file, NoEntry for a file that
\* does not load
DiskEntry(key) ==
    IF disk.kind = "valid" THEN disk.content.data[key] ELSE NoEntry

\* C1: a version()/pair() call that finds a Success entry at the current
\* tool version makes no worker call, and neither does a call for a job
\* whose body already completed normally in the same run.
C1_NoWorkerCallWhenDone ==
    /\ (lastCall.entry = ProcessResult(lastCall.adapter, SUCCESS)
          => lastCall.calls = 0)
    /\ (lastCall.prior => lastCall.calls = 0)

\* the second of two version(r) calls of one run has returned, the first
\* having succeeded, without a worker call
C1_Witness ==
    /\ pc = "ready"
    /\ lastCall.prior
    /\ lastCall.job[1] = JOB_EXTRACT
    /\ lastCall.calls = 0

\* C2: for a release whose ledger entry is Success, version() runs
\* processVersion exactly when the entry's tool version differs from the
\* version the adapter reports.
C2_RedoneOnVersionChange ==
    (lastCall.job[1] = JOB_EXTRACT /\ lastCall.entry.state = SUCCESS)
        => (lastCall.ran <=> lastCall.entry.version # lastCall.adapter)

\* a Success entry loaded from the ledger file was written at another tool
\* version and processVersion is being run again
C2_Witness ==
    /\ pc = "preprocess"
    /\ lastCall.ran
    /\ lastCall.entry.state = SUCCESS
    /\ lastCall.entry.version # toolVersion
    /\ DiskEntry(lastCall.job) = lastCall.entry

\* C3: the done-check is true exactly for an entry that exists, carries
\* the current tool version and has state Success.
C3_DoneCheckIffSuccess ==
    pc \notin {"idle", "loaded"} =>
        \A j \in Jobs :
            LET wv == WorkerVersionOf(workerVersion, toolVersion)
                item == GetItem(db, JobKey(j[1], j[2]))
            IN  hasDone(db, wv, j[1], j[2])
                    <=> (item # NoEntry /\ item.version = wv
                           /\ item.state = SUCCESS)

\* C4: a version()/pair() call that finds a Failure entry runs the job
\* body again.
C4_FailureIsRetried ==
    lastCall.entry.state = FAILURE => lastCall.ran

\* C5: with a quota L >= 1 a process never enters more than L job bodies,
\* lives only while fewer than L bodies have been left, and a quota exit
\* happens with exactly L bodies executed and the ledger saved.
C5_QuotaEnforced ==
    confLimit >= 1 =>
        /\ started <= confLimit
        /\ (pc \notin {"idle", "loaded"} =>
               started - (IF InBody THEN 1 ELSE 0) < confLimit)
        /\ (pc = "idle" /\ exitKind = "quota" =>
               /\ started = confLimit
               /\ disk.kind = "valid"
               /\ disk.content.processCount = confLimit)
        /\ (pc = "idle" /\ exitKind = "natural" => started < confLimit)

\* the quota of 2 ended a process after exactly two bodies
C5_Witness ==
    /\ pc = "idle"
    /\ exitKind = "quota"
    /\ confLimit = 2
    /\ started = 2

\* C6: after a quota exit the ledger file holds the ledger with the entry
\* of the job that reached the quota, Success or Failure.
C6_QuotaExitSaves ==
    (pc = "idle" /\ exitKind = "quota") =>
        /\ disk.kind = "valid"
        /\ lastDone.job # NoJob
        /\ disk.content.data[lastDone.job] = lastDone.entry

\* a quota exit whose last job failed inside the release loop of package
C6_Witness ==
    /\ pc = "idle"
    /\ exitKind = "quota"
    /\ lastDone.entry.state = FAILURE
    /\ DiskEntry(lastDone.job).state = FAILURE

\* C7: in a living process processCount equals the number of job bodies
\* left since the load: 0 after the load whatever the file holds, one more
\* after each body.
C7_CountFreshAndCounting ==
    pc # "idle" => db.processCount = started - (IF InBody THEN 1 ELSE 0)

\* a file with a non-zero serialized processCount has just been loaded
C7_Witness ==
    /\ pc = "loaded"
    /\ disk.kind = "valid"
    /\ disk.content.processCount > 0
    /\ db.processCount = 0

\* C8: load does not raise, and for a missing or unparsable file it
\* returns an empty ledger bound to the requested path.
C8_LoadFallsBack ==
    /\ exitKind # "crashed"
    /\ (pc = "loaded" /\ disk.kind # "valid" =>
           db.data = EmptyData /\ db.path = ConfPath)

\* an unparsable file has just been loaded
C8_Witness ==
    /\ pc = "loaded"
    /\ disk = FileCorrupt
    /\ db = ProcessDB(ConfPath)

\* C9: an entry-point process that has ended has loaded the ledger once
\* and saved it.
C9_MainLoadsAndSaves ==
    (pc = "idle" /\ exitKind = "main") => (mainLoads = 1 /\ mainSaves >= 1)

\* C10: over all processes, the body of a job completes normally at most
\* once per tool version.
C10_AtMostOnce ==
    [][(pc \in {"extract", "report"} /\ pc' = "finally" /\ ~raised')
          => <<curJob, workerVersion>> \notin completed]_vars

\* C10 (amended): a job body is never executed twice normally in one
\* process, and never executed at a tool version for which the ledger file
\* holds a Success entry of that job.
C10_AtMostOncePersisted ==
    Executing =>
        /\ curJob \notin succeeded
        /\ DiskEntry(curJob) # ProcessResult(workerVersion, SUCCESS)

\* a job is being redone at a tool version at which it had already
\* completed in a process that was killed before the ledger was saved
C10_Witness ==
    /\ Executing
    /\ <<curJob, workerVersion>> \in completed
    /\ DiskEntry(curJob) = NoEntry

\* C11: without a predicate, pair returns exactly the pairs of neighbours
\* of its input, in order; nothing for an input of length 0 or 1.
C11_PairAdjacent ==
    (pairRet.called /\ pairArgs.filter = NoFilter) =>
        /\ pairRet.value = AdjacentPairs(pairArgs.releases)
        /\ (Len(pairArgs.releases) <= 1 => pairRet.value = <<>>)

\* pair has returned two pairs for a list of three releases
C11_Witness ==
    /\ pairRet.called
    /\ pairArgs.filter = NoFilter
    /\ Len(pairArgs.releases) = 3
    /\ Len(pairRet.value) = 2

\* C12: with a predicate, pair returns the pairs of neighbours of its
\* input that the predicate accepts, in order.
C12_PairFiltered ==
    (pairRet.called /\ pairArgs.filter # NoFilter) =>
        pairRet.value = SelectSeq(AdjacentPairs(pairArgs.releases),
                                  LAMBDA rp : rp \in pairArgs.filter)

\* package is past its release loop
AfterReleases == pc \in {"pairs", "index"} \/ ctx = "pair"

\* package is running (packages is inside its call of package)
InPackage ==
    pc \in {"releases", "pairs", "index"} \/ ctx \in {"release", "pair"}

\* the elements of a sequence

\* C13: in package, doneReleases is always the list of the releases handled
\* so far whose version call did not raise, in the order of the release
\* list, and the release loop ends only when every release was handled.
C13_ReleaseIsolation ==
    InPackage =>
        /\ doneReleases =
              SelectSeq(SubSeq(releases, 1, relIdx - 1),
                        LAMBDA r : r \notin seen.raisedReleases)
        /\ seen.raisedReleases \subseteq Range(SubSeq(releases, 1, relIdx - 1))
        /\ (AfterReleases => relIdx = Len(releases) + 1)

\* of three releases the second raised and the other two are the done ones
C13_Witness ==
    /\ pc = "pairs"
    /\ Len(releases) = 3
    /\ seen.raisedReleases = {releases[2]}
    /\ doneReleases = <<releases[1], releases[3]>>

\* C14: in package, the pairs are built over the done releases only: no
\* pair, and so no pair call for the project, has an endpoint whose version
\* call raised; and a pair call that raises does not stop the pair loop.
C14_PairsOverDone ==
    (InPackage /\ AfterReleases) =>
        /\ \A i \in 1..Len(pairs) :
              /\ pairs[i].old \in Range(doneReleases)
              /\ pairs[i].new \in Range(doneReleases)
              /\ pairs[i].old \notin seen.raisedReleases
              /\ pairs[i].new \notin seen.raisedReleases
        /\ ((lastCall.job[1] = JOB_DIFF
                /\ lastCall.job[2][1] = projects[projIdx]) =>
               \E i \in 1..Len(pairs) :
                   lastCall.job = JobKey(JOB_DIFF, StrPair(pairs[i])))
        /\ donePairs =
              SelectSeq(SubSeq(pairs, 1, pairIdx - 1),
                        LAMBDA rp : rp \notin seen.raisedPairs)
        /\ (pc = "index" => pairIdx = Len(pairs) + 1)

\* the first of two pairs raised and the second was done after it
C14_Witness ==
    /\ pc = "index"
    /\ Len(pairs) = 2
    /\ seen.raisedPairs = {pairs[1]}
    /\ donePairs = <<pairs[2]>>

\* C15: every project whose package call has ended without the quota exit
\* had index called exactly once.
C15_IndexAlways ==
    pc \in {"packages", "ready"} => seen.indexed = seen.begun

\* C15 (amended): every project whose package call got its release list
\* and has ended without the quota exit had index called exactly once, and
\* index is called when the release loop and the pair loop are over.
C15_IndexAfterLoops ==
    /\ (pc \in {"packages", "ready"} =>
           seen.indexed =
               SelectSeq(seen.begun, LAMBDA q : q \notin seen.unfetched))
    /\ (InPackage =>
           /\ seen.begun # <<>>
           /\ seen.begun[Len(seen.begun)] = projects[projIdx]
           /\ seen.indexed =
                 SelectSeq(SubSeq(seen.begun, 1, Len(seen.begun) - 1),
                           LAMBDA q : q \notin seen.unfetched))
    /\ (pc = "index" =>
           relIdx = Len(releases) + 1 /\ pairIdx = Len(pairs) + 1)

\* index was called for a project all of whose releases raised
C15_Witness ==
    /\ pc = "packages"
    /\ seen.indexed = <<"a">>
    /\ seen.raisedReleases = ReleasesOf("a")
    /\ pairs = <<>>

\* C16: in packages every project is started whatever happened to the
\* projects before it, doneProjects is the list of the started projects
\* that did not raise, in order, and that list is what the manifest gets.
C16_ProjectIsolation ==
    /\ (pc = "packages" =>
           /\ seen.begun = SubSeq(projects, 1, projIdx - 1)
           /\ doneProjects =
                 SelectSeq(seen.begun, LAMBDA q : q \notin seen.failed))
    /\ ((pc = "ready" /\ projIdx > 0) =>
           manifest = SelectSeq(seen.begun, LAMBDA q : q \notin seen.failed))

\* the first project raised in index, the second was started all the same
\* and the manifest was written without the first
C16_Witness ==
    /\ pc = "ready"
    /\ seen.begun = projects
    /\ Len(projects) = 2
    /\ projects[1] \in Range(seen.indexed)
    /\ projects[1] \in seen.failed
    /\ projects[1] \notin Range(manifest)

\* C17: once the timeout has passed no project is started; a project that
\* was started runs to its index call or to its own exception; and when
\* the loop meets the timeout packages writes the manifest and returns.
C17_TimeoutBetweenProjects ==
    /\ []((pc = "ready" /\ projIdx > 0) =>
             /\ manifest = doneProjects
             /\ \A i \in 1..Len(seen.begun) :
                   seen.begun[i] \in Range(seen.indexed) \cup seen.unfetched)
    /\ [][/\ (elapsed /\ elapsed' => seen'.begun = seen.begun)
           /\ ((elapsed /\ pc = "packages" /\ projIdx <= Len(projects)) =>
                  pc' = "ready" /\ manifest' = doneProjects)]_vars

\* the timeout passed while the first project ran: the project reached its
\* index call, the second project was not started, packages returned
C17_Witness ==
    /\ pc = "ready"
    /\ seen.timedOut
    /\ Len(projects) = 2
    /\ seen.begun = <<projects[1]>>
    /\ seen.indexed = <<projects[1]>>
    /\ started > 0
    /\ manifest = doneProjects

\* the index document of the project of the job lists the job's target
Indexed(j) ==
    LET doc == indexDoc[j[2][1]] IN
        /\ doc.written
        /\ IF j[1] = JOB_EXTRACT
           THEN \E i \in 1..Len(doc.apis) : StrRelease(doc.apis[i]) = j[2]
           ELSE /\ \E i \in 1..Len(doc.changes) :
                     StrPair(doc.changes[i]) = j[2]
                /\ \E i \in 1..Len(doc.reports) :
                     StrPair(doc.reports[i]) = j[2]

\* every entry of the index documents has its artifact file
IndexBacked ==
    \A project \in ProjectNames :
        LET doc == indexDoc[project] IN
            /\ \A i \in 1..Len(doc.apis) :
                  tree[<<"extract", StrRelease(doc.apis[i])>>] # "absent"
            /\ \A i \in 1..Len(doc.changes) :
                  tree[<<"diff", StrPair(doc.changes[i])>>] # "absent"
            /\ \A i \in 1..Len(doc.reports) :
                  tree[<<"report", StrPair(doc.reports[i])>>] # "absent"

\* C18: when a run of packages is over, by completion or by timeout, or the
\* process has exited at the quota, the index document of the project lists
\* every release and pair whose job succeeded in the run, and lists nothing
\* whose artifact file was not produced.
C18_IndexInSync ==
    /\ (pc = "ready" /\ projIdx > Len(projects) /\ clientCalls = 0) =>
           \A j \in succeeded : Indexed(j)
    /\ (pc = "idle" /\ exitKind = "quota" /\ lastDone.entry.state = SUCCESS) =>
           Indexed(lastDone.job)
    /\ IndexBacked

\* the releases of the project that have a file of the kind that loads
ValidReleases(kind, project) ==
    {r \in ReleasesOf(project) : tree[<<kind, StrRelease(r)>>] = "valid"}

\* C19: after index(project), index.json of the project has under apis the
\* releases A with a valid extracted artifact in ascending order, under
\* pairs the adjacent pairs of that list, under changes the pairs of it
\* with a valid diff artifact and under reports those with a valid report
\* artifact, whatever index.json held before.
C19_IndexReconstruction ==
    \A k \in 1..Len(seen.indexed) :
        LET project == seen.indexed[k]
            doc == indexDoc[project]
            A == sortedReleases(ValidReleases("extract", project))
        IN  /\ doc.written
            /\ doc.apis = A
            /\ doc.pairs = AdjacentPairs(A)
            /\ doc.changes =
                  SelectSeq(doc.pairs,
                            LAMBDA x : tree[<<"diff", StrPair(x)>>] = "valid")
            /\ doc.reports =
                  SelectSeq(doc.pairs,
                            LAMBDA x : tree[<<"report", StrPair(x)>>] = "valid")

\* C20: a distribution or extracted-API file that does not load when
\* index(project) is called is removed from the tree, its release is not in
\* the distributions (apis) list of the index.json that index writes, and
\* the releases whose file of that kind loads are in the list.
C20_CorruptRemoved ==
    \A x \in seen.unloadable :
        LET doc == indexDoc[x[2][1]]
            listed == IF x[1] = "extract" THEN doc.apis ELSE doc.distributions
        IN  /\ tree[x] = "absent"
            /\ doc.written
            /\ \A i \in 1..Len(listed) : StrRelease(listed[i]) # x[2]
            /\ ValidReleases(x[1], x[2][1]) \subseteq Range(listed)

\* the step is a worker call whose result is a tool failure: a non-zero
\* exit code, or an output that does not parse
WorkerCallFails ==
    /\ Executing
    /\ lastCall'.calls = lastCall.calls + 1
    /\ \/ lastCall'.codes[Len(lastCall'.codes)] # 0
       \/ Target(pc) \in unparsable

\* C21: a worker call of a job that fails, by a non-zero exit code or by an
\* output that does not parse, ends the body with a Failure entry for the
\* job key, and the raise of the body is caught by the release or pair
\* iteration of package, which goes on.
C21_ToolFailureRecorded ==
    [][/\ WorkerCallFails =>
             /\ db'.data[curJob].state = FAILURE
             /\ raised'
             /\ pc' = "finally"
       /\ (pc = "finally" /\ raised /\ pc' # "finally") =>
             /\ pc' = IF ctx = "release" THEN "releases" ELSE "pairs"
             /\ exitKind' = exitKind]_vars

\* C22: processVersion makes its wheels directory before the worker calls
\* and has removed it when it ends, however it ends: the directory is there
\* between the two worker calls and is not there once the body is over.
C22_ScratchRemoved ==
    /\ pc = "extract" => curJob[2][1] \in wheels
    /\ pc \notin {"preprocess", "extract"} => wheels = {}

\* the step is a worker call: a result was obtained
WorkerCall == Executing /\ lastCall'.calls = lastCall.calls + 1

\* the exit code of the worker call of the step
ExitCode == lastCall'.codes[Len(lastCall'.codes)]

\* C23 as stated: every worker result obtained in a body is written to its
\* cache path and to its distribution path, whatever its exit code.
C23_BothWritten ==
    [][WorkerCall =>
          /\ Target(pc) \in cache'
          /\ tree'[Target(pc)] # "absent"]_vars

\* C23, amended: every worker result obtained in a body is written to its
\* cache path whatever its exit code, and to its distribution path exactly
\* when its exit code is 0; a result with another exit code leaves the
\* distribution tree as it was.
C23_CacheAlwaysDistOnZero ==
    [][WorkerCall =>
          /\ Target(pc) \in cache'
          /\ tree' = IF ExitCode = 0
                     THEN [tree EXCEPT ![Target(pc)] = Printed(pc)]
                     ELSE tree]_vars

\* preprocess exited with 0 and extract with 1: both results are in the
\* cache and only the distribution is in the distribution tree
C23_Witness ==
    /\ pc = "finally"
    /\ lastCall.codes = <<0, 1>>
    /\ {<<"preprocess", curJob[2]>>, <<"extract", curJob[2]>>} \subseteq cache
    /\ tree[<<"preprocess", curJob[2]>>] # "absent"
    /\ tree[<<"extract", curJob[2]>>] = "absent"

\* C24: in the index.json that index(project) writes, changes (reports) are
\* the pairs that have a diff (report) file in the distribution tree,
\* whether the file loads or not, and index removes no diff or report file.
C24_ExistenceBased ==
    /\ [](\A k \in 1..Len(seen.indexed) :
            LET doc == indexDoc[seen.indexed[k]] IN
                /\ doc.written
                /\ doc.changes =
                      SelectSeq(doc.pairs, LAMBDA x :
                                  tree[<<"diff", StrPair(x)>>] # "absent")
                /\ doc.reports =
                      SelectSeq(doc.pairs, LAMBDA x :
                                  tree[<<"report", StrPair(x)>>] # "absent"))
    /\ [][\A x \in Artifacts : x[1] \in PairKinds => tree'[x] = tree[x]]_vars

\* every version string of the list is one the comparator can parse
AllParse(q, by) == \A i \in 1..Len(q) : Rank(q[i], by) # 0

\* the list is in ascending order of the comparator
IsSortedBy(q, by) ==
    \A i, j \in 1..Len(q) : i < j => Rank(q[i], by) <= Rank(q[j], by)

\* C25: every call of sortedVersions returns, and returns a permutation of
\* its input, leaving the input list as it was: in the order of the first
\* comparator when that parses every element, else in the order of the
\* second comparator when that parses every element, else in the input
\* order exactly.
C25_SortFallback ==
    /\ [](sortRet.called =>
            /\ sortRet.value \in Permutations_(sortArgs)
            /\ IF AllParse(sortArgs, "pep")
               THEN IsSortedBy(sortRet.value, "pep")
               ELSE IF AllParse(sortArgs, "sem")
                    THEN IsSortedBy(sortRet.value, "sem")
                    ELSE sortRet.value = sortArgs)
    /\ [][sortArgs' = sortArgs]_vars

\* the first comparator cannot parse one of three versions, the second
\* parses them all and its order is not the input order
C25_Witness ==
    /\ sortRet.called
    /\ Len(sortArgs) = 3
    /\ ~AllParse(sortArgs, "pep")
    /\ AllParse(sortArgs, "sem")
    /\ sortRet.value # sortArgs

\* the step is a version() or pair() call that finds its job done and does
\* not enter the body
SkipStep ==
    /\ lastCall'.job # NoJob
    /\ ~lastCall'.ran
    /\ \/ pc = "releases" /\ pc' = "releases" /\ relIdx' = relIdx + 1
       \/ pc = "pairs" /\ pc' = "pairs" /\ pairIdx' = pairIdx + 1
       \/ pc = "ready" /\ pc' = "ready" /\ clientCalls' = clientCalls + 1

\* C26: a version() or pair() call that finds its job done leaves the
\* ledger as it is, entries and processCount, and the ledger file too: it
\* enters no body, uses no quota and does not end the process.
C26_SkipNoEffect ==
    [][SkipStep =>
          /\ db' = db
          /\ disk' = disk
          /\ started' = started
          /\ exitKind' = exitKind]_vars

\* with a quota of 1, a process has skipped a job that an earlier process
\* did, and has used none of its quota
C26_Witness ==
    /\ pc \in {"releases", "pairs", "ready"}
    /\ confLimit = 1
    /\ lastCall.job # NoJob
    /\ ~lastCall.ran
    /\ lastCall.entry.state = SUCCESS
    /\ db.processCount = 0
    /\ started = 0

\* the ledger has counted no more bodies than its quota allows
WithinLimit(d) == d.processLimit # NoLimit => d.processCount <= d.processLimit

\* C27: with a quota configured, 0 included, processCount <= processLimit
\* in every state of a run and in every ledger file a run saves, and a run
\* enters no more job bodies than the quota.
C27_CountWithinLimit ==
    /\ pc \notin {"idle", "loaded"} => WithinLimit(db)
    /\ disk.kind = "valid" => WithinLimit(disk.content)
    /\ confLimit # NoLimit => started <= confLimit

\* the two artifact files of the job in the body
ArtifactsOfJob ==
    IF curJob[1] = JOB_EXTRACT
    THEN {<<"preprocess", curJob[2]>>, <<"extract", curJob[2]>>}
    ELSE {<<"diff", curJob[2]>>, <<"report", curJob[2]>>}

\* C28: a Success entry is recorded for a job only when its two worker
\* calls both exited with 0, the second made only after the first exited
\* with 0, and both its artifacts are in the distribution tree; and a
\* worker call that exits with another code writes nothing to the tree.
C28_SuccessMeansBothZero ==
    /\ [](/\ pc \in {"preprocess", "diff"} => lastCall.codes = <<>>
          /\ pc \in {"extract", "report"} => lastCall.codes = <<0>>
          /\ (pc = "finally" /\ ~raised) =>
                /\ lastCall.codes = <<0, 0>>
                /\ db.data[curJob] = ProcessResult(workerVersion, SUCCESS)
                /\ \A x \in ArtifactsOfJob : tree[x] # "absent")
    /\ [][/\ \A j \in Jobs :
                (/\ pc # "idle"
                 /\ db'.data[j] # db.data[j]
                 /\ db'.data[j].state = SUCCESS) =>
                    /\ j = curJob
                    /\ pc \in {"extract", "report"}
                    /\ lastCall'.codes = <<0, 0>>
                    /\ \A x \in ArtifactsOfJob : tree'[x] # "absent"
          /\ (WorkerCall /\ ExitCode # 0) => tree' = tree
          /\ tree' # tree => WorkerCall /\ ExitCode = 0]_vars

\* a pair job was recorded as Success after diff and report both exited
\* with 0, and both its files are in the tree
C28_Witness ==
    /\ pc = "finally"
    /\ ~raised
    /\ curJob[1] = JOB_DIFF
    /\ lastCall.codes = <<0, 0>>
    /\ db.data[curJob].state = SUCCESS
    /\ tree[<<"diff", curJob[2]>>] = "valid"
    /\ tree[<<"report", curJob[2]>>] = "valid"

====
